---------------------------- MODULE Spec2Model ----------------------------
(***************************************************************************)
(* A model of src/spectralbridges/__init__.py: the classes _KMeans,        *)
(* _SpectralClustering and SpectralBridges.                                *)
(*                                                                         *)
(* Numbers.  Reals are held exactly.  A coordinate is an integer multiple  *)
(* of 1/Unit (fixed point), so that the mean of up to NPoints data points  *)
(* is exact.  A quotient of two such numbers is a reduced fraction         *)
(* <<num, den>>.  An affinity entry is a record: kind "num" holds the      *)
(* fraction v, kind "sqrt" the square root of v, kind "exp" the            *)
(* exponential fixed by v and the maximum top.  numpy's float results that *)
(* are not numbers are kept as such, as kind "zero", "inf" or "nan", and a *)
(* "nan" is equal to nothing, itself included.                             *)
(*                                                                         *)
(* Python's None is the empty tuple <<>>; a present value x of an optional *)
(* field is <<x>>.                                                         *)
(***************************************************************************)
EXTENDS Integers, Sequences, FiniteSets, TLC

(***************************************************************************)
(* Bounds of the model.                                                    *)
(***************************************************************************)
NPoints == 4        \* most rows of a data matrix X handed to fit
MaxCoord == 3       \* the coordinates of X are 0 .. MaxCoord
MaxNodes == 3       \* n_nodes is 1 .. MaxNodes
MaxClusters == 3    \* n_clusters is 1 .. MaxClusters
MaxEig == 1         \* eigenvalues returned by eigh are 0 .. MaxEig
RngMod == 4         \* the generator has RngMod states; a uniform is s / RngMod
MaxTrials == 2      \* an explicit n_local_trials is 1 .. MaxTrials

(***************************************************************************)
(* State.                                                                  *)
(***************************************************************************)
VARIABLES
    sb,                  \* the SpectralBridges object's configuration fields
    cluster_centers_,    \* its cluster_centers_ (None before the first fit)
    eigvals_,            \* its eigvals_ (None before the first fit)
    X_train,             \* the training array the caller passes to fit
    kmeans,              \* fit's local _KMeans object after the last call
    affinity,            \* fit's local affinity matrix, at both stages
    lapack,              \* the last np.linalg.eigh call: its input and output
    spectralclustering,  \* fit's local _SpectralClustering object
    ret,                 \* the last call: operation, exception, value
    runs,                \* the outcomes of the last fits of a seeded object
                         \* on X_train (the last two at most)
    km,                  \* a _KMeans object, for its _init_centroids
    loop,                \* the locals of its running _init_centroids
    pc                   \* where that call is: idle, loop, done, raised

vars == <<sb, cluster_centers_, eigvals_, X_train, kmeans, affinity,
          lapack, spectralclustering, ret, runs, km, loop, pc>>

sbVars == <<sb, cluster_centers_, eigvals_, X_train, kmeans, affinity,
            lapack, spectralclustering, ret, runs>>

kmVars == <<km, loop, pc>>

(***************************************************************************)
(* Program constants.                                                      *)
(***************************************************************************)
NIterDefault == 20
MDefault == 10000

None == <<>>
Some(x) == <<x>>
Get(o) == o[1]

\* F(v), with v evaluated once and bound to its value.
Let(v, F(_)) == CHOOSE r \in {F(x) : x \in {v}} : TRUE

(***************************************************************************)
(* Arithmetic helpers.                                                     *)
(***************************************************************************)
Max2(a, b) == IF a >= b THEN a ELSE b
Min2(a, b) == IF a <= b THEN a ELSE b
Abs(a) == IF a < 0 THEN -a ELSE a

RECURSIVE Gcd(_, _)
Gcd(a, b) == IF b = 0 THEN a ELSE Gcd(b, a % b)

RECURSIVE LcmUpTo(_)
LcmUpTo(n) == IF n <= 1 THEN 1
              ELSE LET l == LcmUpTo(n - 1) IN (l * n) \div Gcd(l, n)

\* 1.0 in fixed point: every mean of at most Max2(NPoints, MaxNodes) points
\* with integer coordinates is a whole number of 1/Unit.
Unit == LcmUpTo(Max2(NPoints, MaxNodes))

RECURSIVE SumSeq(_)
SumSeq(s) == IF s = <<>> THEN 0 ELSE Head(s) + SumSeq(Tail(s))

\* np.einsum("ij,ij->i", ...) on one row pair: the dot product.
Dot(u, v) == SumSeq([j \in 1..Len(u) |-> u[j] * v[j]])

VecSub(u, v) == [j \in 1..Len(u) |-> u[j] - v[j]]

\* np.array(X, dtype=np.float32): integer coordinates become fixed point.
ToFloat(X) == [p \in 1..Len(X) |-> [j \in 1..Len(X[p]) |-> X[p][j] * Unit]]

(***************************************************************************)
(* The random generator.  np.random.default_rng(seed) is a deterministic   *)
(* stream fixed by the seed; with seed None the stream starts from fresh   *)
(* OS entropy.  The stream is an additive congruential generator over      *)
(* RngMod states; a draw reads the state s as the uniform s / RngMod and   *)
(* advances it.                                                            *)
(***************************************************************************)
RngStates == 0 .. (RngMod - 1)

RngNext(s) == (s + 3) % RngMod

\* A generator that ignores the seed and starts from a state that changes
\* from one fit to the next.
DefaultRngPerCall(random_state, entropy) == Len(runs) % RngMod

\* line 53: rng = np.random.default_rng(self.random_state)
DefaultRng(random_state, entropy) ==
    IF random_state = None THEN entropy ELSE Get(random_state) % RngMod

\* line 56: rng.integers(n), floor(u * n)
RngIntegers(s, n) == (s * n) \div RngMod

\* cdf.searchsorted(u, side="right") for cdf = cumsum(p) / cumsum(p)[-1] and
\* p = dists / inertia: the number of prefixes whose mass is <= u.
ChoiceIndex(s, dists, inertia) ==
    Cardinality({q \in 1..Len(dists) :
        SumSeq(SubSeq(dists, 1, q)) * RngMod <= s * inertia})

RECURSIVE RngAdvance(_, _)
RngAdvance(s, t) == IF t = 0 THEN s ELSE RngAdvance(RngNext(s), t - 1)

\* lines 67-69: rng.choice(n, size=t, p=dists / inertia): t draws with
\* replacement, as 0-based indices.
RngChoice(s, t, dists, inertia) ==
    [c \in 1..t |-> ChoiceIndex(RngAdvance(s, c - 1), dists, inertia)]

(***************************************************************************)
(* _KMeans._dists and _KMeans._init_centroids                              *)
(***************************************************************************)
\* lines 46-50: XX - 2 X y^T + yy, clipped at 0; result[p][c].
KMeans_dists(X, y) ==
    [p \in 1..Len(X) |->
        [c \in 1..Len(y) |->
            Max2(0, Dot(X[p], X[p]) - 2 * Dot(X[p], y[c]) + Dot(y[c], y[c]))]]

\* floor(ln k), from e^1 < 3, e^2 < 8, e^3 < 21.
FloorLn(k) == IF k < 3 THEN 0 ELSE IF k < 8 THEN 1 ELSE IF k < 21 THEN 2 ELSE 3

\* lines 63-64: the value n_local_trials holds after the test.
LocalTrials(n_local_trials, n_clusters) ==
    IF n_local_trials = None THEN Some(2 + FloorLn(n_clusters))
    ELSE n_local_trials

\* The first index of the greatest value (1-based).
ArgMaxFirst(s) ==
    CHOOSE c \in 1..Len(s) :
        /\ \A e \in 1..Len(s) : s[e] <= s[c]
        /\ \A e \in 1..(c - 1) : s[e] < s[c]

\* line 76: inertias.argmin(), the first index of the least value (1-based).
ArgMin(s) ==
    CHOOSE c \in 1..Len(s) :
        /\ \A e \in 1..Len(s) : s[c] <= s[e]
        /\ \A e \in 1..(c - 1) : s[e] > s[c]

\* lines 53-64: the state of _init_centroids when it enters its loop.
\*   rng: generator state, centroids: the centres chosen, dists: potential of
\*   each point, inertia: its sum, trials: self.n_local_trials after line 64,
\*   candidate_ids / inertias: the last step's candidates and their totals,
\*   prev: the inertia before the last step, err: the exception raised.
SeedFirst(X, n_clusters, n_local_trials, rng0) ==
    LET first == RngIntegers(rng0, Len(X)) + 1
        d == KMeans_dists(X, <<X[first]>>)
        dists == [p \in 1..Len(X) |-> d[p][1]]
    IN [rng |-> RngNext(rng0),
        centroids |-> <<X[first]>>,
        dists |-> dists,
        inertia |-> SumSeq(dists),
        trials |-> LocalTrials(n_local_trials, n_clusters),
        candidate_ids |-> <<>>,
        inertias |-> <<>>,
        prev |-> SumSeq(dists),
        err |-> "none"]

\* lines 73 and 78: column best of np.minimum(current, dists[:, None]).
StepDists(dists, current, best) ==
    [p \in 1..Len(dists) |-> Min2(current[p][best], dists[p])]

\* lines 67-81: one pass of the loop.  rng.choice raises ValueError when p
\* holds NaN (inertia = 0, so p = 0 / 0); argmin raises ValueError on no
\* candidates.
SeedStep(X, st) ==
    IF st.inertia = 0 \/ Get(st.trials) <= 0
    THEN [st EXCEPT !.err = "ValueError"]
    ELSE
    LET t == Get(st.trials) IN
    Let(RngChoice(st.rng, t, st.dists, st.inertia), LAMBDA candidate_ids :
    Let(KMeans_dists(X, [c \in 1..t |-> X[candidate_ids[c] + 1]]), LAMBDA current :
    Let([c \in 1..t |->
            SumSeq([p \in 1..Len(X) |-> Min2(current[p][c], st.dists[p])])],
        LAMBDA inertias :
    Let(ArgMin(inertias), LAMBDA best :
       [rng |-> RngAdvance(st.rng, t),
        centroids |-> Append(st.centroids, X[candidate_ids[best] + 1]),
        dists |-> StepDists(st.dists, current, best),
        inertia |-> inertias[best],
        trials |-> st.trials,
        candidate_ids |-> candidate_ids,
        inertias |-> inertias,
        prev |-> st.inertia,
        err |-> "none"]))))

RECURSIVE SeedLoop(_, _, _)
\* line 66: for i in range(1, self.n_clusters)
SeedLoop(X, n_clusters, st) ==
    Let(st, LAMBDA s :
        IF s.err # "none" \/ Len(s.centroids) >= n_clusters THEN s
        ELSE SeedLoop(X, n_clusters, SeedStep(X, s)))

\* lines 52-83
KMeans_init_centroids(X, n_clusters, n_local_trials, rng0) ==
    SeedLoop(X, n_clusters, SeedFirst(X, n_clusters, n_local_trials, rng0))


(***************************************************************************)
(* faiss: IndexFlatL2.search and Clustering.train, the library calls of    *)
(* _KMeans.fit.                                                            *)
(***************************************************************************)
Dist2(u, v) == Dot(VecSub(u, v), VecSub(u, v))

\* index.search(x, 1)[1] for one query: the exact nearest row of C, the
\* first one among equally near rows (1-based).
Nearest(x, C) ==
    CHOOSE c \in 1..Len(C) :
        /\ \A e \in 1..Len(C) : Dist2(x, C[c]) <= Dist2(x, C[e])
        /\ \A e \in 1..(c - 1) : Dist2(x, C[e]) > Dist2(x, C[c])

\* line 109 and line 285: index.search(X, 1)[1].ravel(), 0-based labels.
Search(X, C) == [p \in 1..Len(X) |-> Nearest(X[p], C) - 1]

Count(lab, c) == Cardinality({p \in 1..Len(lab) : lab[p] = c})

\* The mean of the rows of X labelled c (c has at least one row).
Mean(X, lab, c) ==
    [j \in 1..Len(X[1]) |->
        SumSeq([p \in 1..Len(X) |-> IF lab[p] = c THEN X[p][j] ELSE 0])
            \div Count(lab, c)]

\* faiss gives a centroid that lost all its points the centroid of a
\* cluster holding several points; here the first of the largest ones.
Largest(lab, k) ==
    CHOOSE c \in 0..(k - 1) :
        /\ \A e \in 0..(k - 1) : Count(lab, e) <= Count(lab, c)
        /\ \A e \in 0..(c - 1) : Count(lab, e) < Count(lab, c)

\* One round of Clustering.train: assign, then recompute the centroids.
LloydStep(X, C) ==
    Let(Search(X, C), LAMBDA lab :
        [c \in 1..Len(C) |->
          IF Count(lab, c - 1) > 0 THEN Mean(X, lab, c - 1)
          ELSE Mean(X, lab, Largest(lab, Len(C)))])

RECURSIVE Lloyd(_, _, _)
\* niter rounds; a round that changes nothing is a fixed point of the rest.
Lloyd(X, C, niter) ==
    IF niter = 0 THEN C
    ELSE Let(LloydStep(X, C), LAMBDA D :
             IF D = C THEN C ELSE Lloyd(X, D, niter - 1))

\* lines 99-104: kmeans.train(X_f32, index) from the given centroids.  faiss
\* refuses fewer points than clusters, and copies the points when there
\* are as many points as clusters.
FaissTrain(X, init, n_iter) ==
    IF Len(X) < Len(init) THEN [err |-> "RuntimeError", centroids |-> None]
    ELSE IF Len(X) = Len(init) THEN [err |-> "none", centroids |-> X]
    ELSE [err |-> "none", centroids |-> Lloyd(X, init, n_iter)]

(***************************************************************************)
(* _KMeans.fit                                                             *)
(***************************************************************************)
\* line 109
KMeansLabels(X, C) == Search(X, C)

\* lines 85-109.  The result is the _KMeans object after the call: the
\* exception raised, n_local_trials (line 64 writes it before the loop),
\* cluster_centers_ and labels_.
KMeans_fit(X, n_clusters, n_iter, n_local_trials, random_state, entropy) ==
    Let(KMeans_init_centroids(X, n_clusters, n_local_trials,
                              DefaultRng(random_state, entropy)), LAMBDA st :
    IF st.err # "none"
    THEN [err |-> st.err, n_clusters |-> n_clusters,
          n_local_trials |-> st.trials,
          cluster_centers_ |-> None, labels_ |-> None]
    ELSE
    Let(FaissTrain(X, st.centroids, n_iter), LAMBDA tr :
    IF tr.err # "none"
    THEN [err |-> tr.err, n_clusters |-> n_clusters,
          n_local_trials |-> st.trials,
          cluster_centers_ |-> None, labels_ |-> None]
    ELSE [err |-> "none", n_clusters |-> n_clusters,
          n_local_trials |-> st.trials,
          cluster_centers_ |-> tr.centroids,
          labels_ |-> KMeansLabels(X, tr.centroids)]))


(***************************************************************************)
(* Exact fractions <<num, den>>, den > 0, reduced.                         *)
(***************************************************************************)
Frac(n, d) == LET g == Gcd(Abs(n), Abs(d))
              IN IF d < 0 THEN <<(-n) \div g, (-d) \div g>>
                 ELSE <<n \div g, d \div g>>

FracAdd(a, b) == Frac(a[1] * b[2] + b[1] * a[2], a[2] * b[2])

FracLess(a, b) == a[1] * b[2] < b[1] * a[2]

RECURSIVE SumFrac(_)
SumFrac(s) == IF s = <<>> THEN <<0, 1>> ELSE FracAdd(Head(s), SumFrac(Tail(s)))

Nan == [kind |-> "nan"]
Inf == [kind |-> "inf"]
Zero == [kind |-> "zero"]

\* IEEE equality of two matrix entries: NaN equals nothing.
FloatEq(a, b) == a.kind # "nan" /\ b.kind # "nan" /\ a = b

(***************************************************************************)
(* SpectralBridges.fit, lines 220-252: the affinity matrix.                *)
(***************************************************************************)
\* lines 222-229: the rows of X labelled i (0-based), less centroid i.
XCentered(Xf, centers, labels, i) ==
    [p \in {q \in 1..Len(Xf) : labels[q] = i} |-> VecSub(Xf[p], centers[i + 1])]

\* lines 234-244: affinity[i][j] before the symmetrization, for 1-based
\* nodes i and j: the sum over the members of i of the squared clipped
\* projections on the segment to j, in units of the segment.
RawAffinity(Xf, centers, labels, i, j) ==
    LET res == XCentered(Xf, centers, labels, i - 1)
        members == DOMAIN res
        seg == VecSub(centers[j], centers[i])
        dist == IF j = i THEN 1 ELSE Dot(seg, seg)
        proj(p) == Frac(Max2(0, Dot(res[p], seg)), dist)
        total == SumFrac([p \in 1..Len(Xf) |->
                    IF p \in members
                    THEN <<proj(p)[1] * proj(p)[1], proj(p)[2] * proj(p)[2]>>
                    ELSE <<0, 1>>])
    IN IF members = {} THEN [kind |-> "num", v |-> <<0, 1>>]
       ELSE IF dist = 0 THEN Nan
       ELSE [kind |-> "num", v |-> total]

\* lines 231-232 and 246: np.sqrt((affinity + affinity.T) / counts), entry
\* i, j.  The entry stands for the square root of the fraction v.
SymEntry(raw, n_i, n_j, i, j) ==
    IF raw[i][j].kind = "nan" \/ raw[j][i].kind = "nan" THEN Nan
    ELSE LET sum == FracAdd(raw[i][j].v, raw[j][i].v)
         IN IF n_i + n_j = 0 THEN Nan  \* two empty nodes: 0 / 0
            ELSE [kind |-> "sqrt", v |-> Frac(sum[1], sum[2] * (n_i + n_j))]

\* lines 220-246
SymAffinity(Xf, centers, labels) ==
    LET n == Len(centers) IN
    Let([i \in 1..n |-> [j \in 1..n |-> RawAffinity(Xf, centers, labels, i, j)]],
        LAMBDA raw :
        [raw |-> raw,
         sym |-> [i \in 1..n |-> [j \in 1..n |->
                    SymEntry(raw, Count(labels, i - 1), Count(labels, j - 1), i, j)]]])

Entries(A) == {A[i][j] : i \in 1..Len(A), j \in 1..Len(A)}

\* affinity.max(), as the fraction under the square root.
MaxEntry(A) ==
    CHOOSE v \in {e.v : e \in Entries(A)} :
        \A e \in Entries(A) : ~FracLess(v, e.v)

\* The q-th (0-based) smallest of the n * n entries, as a fraction.
SortedAt(A, q) ==
    LET n == Len(A)
        cells == (1..n) \X (1..n)
        below(v) == Cardinality({c \in cells : FracLess(A[c[1]][c[2]].v, v)})
        upto(v) == Cardinality({c \in cells : ~FracLess(v, A[c[1]][c[2]].v)})
    IN CHOOSE v \in {e.v : e \in Entries(A)} : below(v) <= q /\ q < upto(v)

\* line 249: whether q90 - q10 > 0.  np.quantile interpolates linearly
\* between the sorted entries around positions 0.1 (L-1) and 0.9 (L-1);
\* the two quantiles differ exactly when the lowest entry under q10 differs
\* from the highest entry under q90.
SpreadPositive(A) ==
    LET L == Len(A) * Len(A)
        lo == (L - 1) \div 10
        hi == (9 * (L - 1)) \div 10 + (IF (9 * (L - 1)) % 10 = 0 THEN 0 ELSE 1)
    IN SortedAt(A, lo) # SortedAt(A, hi)

\* line 251: np.log(self.M) / (q90 - q10) in float arithmetic.
Gamma(M, spreadPositive) ==
    IF M < 0 THEN "nan"
    ELSE IF M = 0 THEN "-inf"
    ELSE IF M = 1 THEN (IF spreadPositive THEN "zero" ELSE "nan")
    ELSE IF spreadPositive THEN "pos" ELSE "+inf"

\* lines 247 and 252 on one entry: exp(gamma * (a - 0.5 max)).  For a
\* finite gamma # 0 the result is a number fixed by the fraction v; an
\* infinite gamma gives inf, 0 or (for a = 0.5 max) NaN.
ExpEntry(e, top, gamma) ==
    LET above == FracLess(top, Frac(4 * e.v[1], e.v[2]))  \* a > 0.5 max
        below == FracLess(Frac(4 * e.v[1], e.v[2]), top)  \* a < 0.5 max
    IN CASE gamma = "nan" -> Nan
         [] gamma = "pos" -> [kind |-> "exp", v |-> e.v, top |-> top]
         [] gamma = "zero" -> [kind |-> "exp", v |-> <<0, 1>>, top |-> <<0, 1>>]
         [] gamma = "+inf" -> IF above THEN Inf ELSE IF below THEN Zero ELSE Nan
         [] gamma = "-inf" -> IF above THEN Zero ELSE IF below THEN Inf ELSE Nan

\* lines 247-252: the contrast rescale.  A NaN entry makes the maximum, the
\* quantiles and so every entry NaN.
Rescale(A, M) ==
    LET n == Len(A) IN
    IF \E e \in Entries(A) : e.kind # "sqrt"
    THEN [i \in 1..n |-> [j \in 1..n |-> Nan]]
    ELSE Let(MaxEntry(A), LAMBDA top :
         Let(Gamma(M, SpreadPositive(A)), LAMBDA gamma :
             [i \in 1..n |-> [j \in 1..n |-> ExpEntry(A[i][j], top, gamma)]]))

(***************************************************************************)
(* _SpectralClustering.fit, lines 141-157.                                 *)
(***************************************************************************)
RECURSIVE NonDecreasing(_, _, _)
NonDecreasing(n, lo, hi) ==
    IF n = 0 THEN {<<>>}
    ELSE UNION {{<<x>> \o t : t \in NonDecreasing(n - 1, x, hi)} : x \in lo..hi}

\* Ascending eigenvalue sequences of a normalized Laplacian: n values
\* starting at 0.
EigSeqs(n) == {<<0>> \o t : t \in NonDecreasing(n - 1, 0, MaxEig)}

\* A row of eigvecs[:, :d]: half a unit along axis j.
HalfAxis(j, d) == [c \in 1..d |-> IF c = j THEN Unit \div 2 ELSE 0]

OffDiagonal(A) ==
    {A[c[1]][c[2]] : c \in {c \in (1..Len(A)) \X (1..Len(A)) : c[1] # c[2]}}

\* line 149: laplacian(affinity, normed=True) zeroes the diagonal and
\* scales by the degrees.  The result is the zero matrix when no entry off
\* the diagonal is positive, holds NaN when one is NaN or inf, and is a
\* finite matrix otherwise.
LaplacianKind(A) ==
    IF \A e \in OffDiagonal(A) : e.kind = "zero" THEN "zero"
    ELSE IF \A e \in OffDiagonal(A) : e.kind = "exp" THEN "finite"
    ELSE "nan"

\* lines 151-152: what np.linalg.eigh may return for the Laplacian of A,
\* with the columns eigvecs[:, :n_clusters] only.  On a finite Laplacian:
\* ascending eigenvalues and non-zero rows.  On the zero matrix: zeros and
\* the identity.  On NaN input LAPACK either fails to converge
\* (LinAlgError) or returns NaN.
Eigh(A, n_clusters) ==
    LET n == Len(A)
        d == Min2(n_clusters, n)
        kind == LaplacianKind(A)
    IN IF kind = "zero"
       THEN {[err |-> "none", nan |-> FALSE,
              eigvals |-> [i \in 1..n |-> 0],
              cols |-> [i \in 1..n |-> [c \in 1..d |-> IF c = i THEN Unit ELSE 0]]]}
       ELSE IF kind = "finite"
       THEN {[err |-> "none", nan |-> FALSE, eigvals |-> e, cols |-> c] :
                e \in EigSeqs(n),
                c \in [1..n -> {HalfAxis(j, d) : j \in 1..d}]}
       ELSE {[err |-> "LinAlgError", nan |-> FALSE, eigvals |-> None, cols |-> None],
             [err |-> "none", nan |-> TRUE, eigvals |-> None, cols |-> None]}

\* np.linalg.eigh is a function: the same input gives the same output.
\* memo is the last call, [in |-> <<A, n_clusters>>, out |-> its result].
EighCall(A, n_clusters, memo) ==
    IF memo # None /\ memo.in = <<A, n_clusters>> THEN {memo.out}
    ELSE Eigh(A, n_clusters)

Norm(v) == CHOOSE r \in 0..Unit : r * r = Dot(v, v)

\* line 153: eigvecs /= np.linalg.norm(eigvecs, axis=1)[:, None]
NormalizeRows(cols) ==
    [i \in 1..Len(cols) |->
        [c \in 1..Len(cols[i]) |-> (cols[i][c] * Unit) \div Norm(cols[i])]]

\* The _KMeans object after fit on a matrix holding NaN: p = dists / inertia
\* is NaN, so rng.choice (line 67) raises ValueError when the loop runs;
\* with one cluster the loop is skipped and faiss refuses the NaN input.
KMeans_fit_nan(n_clusters) ==
    [err |-> IF n_clusters >= 2 THEN "ValueError" ELSE "RuntimeError",
     n_clusters |-> n_clusters,
     n_local_trials |-> LocalTrials(None, n_clusters),
     cluster_centers_ |-> None, labels_ |-> None]

\* lines 141-157, given what eigh returned.  The result is the
\* _SpectralClustering object after the call, with the exception raised
\* and its _KMeans object.
SpectralClustering_fit(out, n_clusters, random_state, entropy) ==
    IF out.err # "none"
    THEN [err |-> out.err, eigvals_ |-> None, labels_ |-> None, nan |-> FALSE,
          kmeans |-> None]
    ELSE LET zeroRow == \E i \in 1..Len(out.cols) : Dot(out.cols[i], out.cols[i]) = 0
             nan == out.nan \/ zeroRow
         IN Let(IF nan THEN KMeans_fit_nan(n_clusters)
                ELSE Let(NormalizeRows(out.cols), LAMBDA rows :
                         KMeans_fit(rows, n_clusters, NIterDefault, None,
                                    random_state, entropy)),
                LAMBDA km2 :
                [err |-> km2.err,
                 eigvals_ |-> out.eigvals,
                 labels_ |-> km2.labels_,
                 nan |-> out.nan,
                 kmeans |-> Some(km2)])

(***************************************************************************)
(* SpectralBridges                                                         *)
(***************************************************************************)
\* lines 186-202: __init__
SpectralBridgesNew(n_clusters, n_nodes, M, n_local_trials, random_state) ==
    [n_clusters |-> n_clusters, n_nodes |-> n_nodes, M |-> M,
     n_iter |-> NIterDefault, n_local_trials |-> n_local_trials,
     random_state |-> random_state]

\* Groups with label <= g in place of label = g.
GroupsUpTo(centers, labels, n_clusters) ==
    [g \in 1..n_clusters |->
        LET idx == {i \in 1..Len(centers) : labels[i] <= g - 1} IN
        [q \in 1..Cardinality(idx) |->
            centers[CHOOSE i \in idx : Cardinality({e \in idx : e < i}) = q - 1]]]

\* Groups with the labels read as 1-based.
GroupsOffByOne(centers, labels, n_clusters) ==
    [g \in 1..n_clusters |->
        LET idx == {i \in 1..Len(centers) : labels[i] = g} IN
        [q \in 1..Cardinality(idx) |->
            centers[CHOOSE i \in idx : Cardinality({e \in idx : e < i}) = q - 1]]]

\* lines 260-263: for each final cluster g (0-based), the rows of the node
\* centroids whose label is g, in node order.
Groups(centers, labels, n_clusters) ==
    [g \in 1..n_clusters |->
        LET idx == {i \in 1..Len(centers) : labels[i] = g - 1} IN
        [q \in 1..Cardinality(idx) |->
            centers[CHOOSE i \in idx : Cardinality({e \in idx : e < i}) = q - 1]]]

\* lines 220-252
BuildAffinity(Xf, centers, labels, M) ==
    Let(SymAffinity(Xf, centers, labels), LAMBDA a :
    Let(a.sym, LAMBDA sym :
        [raw |-> a.raw, sym |-> sym, exp |-> Rescale(sym, M)]))

(***************************************************************************)
(* Inputs.                                                                 *)
(***************************************************************************)
RECURSIVE SortedSeqs(_, _)
\* The non-decreasing sequences of length n over lo .. MaxCoord.
SortedSeqs(n, lo) ==
    IF n = 0 THEN {<<>>}
    ELSE UNION {{<<x>> \o t : t \in SortedSeqs(n - 1, x)} : x \in lo..MaxCoord}

\* Data matrices: 2 .. NPoints rows of one integer coordinate each.
Datasets ==
    UNION {{[p \in 1..n |-> <<s[p]>>] : s \in SortedSeqs(n, 0)} : n \in 2..NPoints}

TrialsValues == {None} \cup {Some(t) : t \in 1..MaxTrials}

SeedValues == {None, Some(1)}

(***************************************************************************)
(* _KMeans._init_centroids, pass by pass, on a _KMeans object km.          *)
(***************************************************************************)
NoLoop == [rng |-> 0, centroids |-> <<>>, dists |-> <<>>, inertia |-> 0,
           trials |-> None, candidate_ids |-> <<>>, inertias |-> <<>>,
           prev |-> 0, err |-> "none"]

\* lines 34-44: _KMeans.__init__
KMeansNew(n_clusters, n_local_trials, random_state) ==
    [n_clusters |-> n_clusters, n_iter |-> NIterDefault,
     n_local_trials |-> n_local_trials, random_state |-> random_state,
     given_trials |-> n_local_trials, data |-> <<>>]

\* lines 53-64: the call starts; line 64 stores the default on the object.
InitCentroidsEnter ==
    /\ pc = "idle"
    /\ \E D \in Datasets, entropy \in RngStates :
         LET st == SeedFirst(ToFloat(D), km.n_clusters, km.n_local_trials,
                             DefaultRng(km.random_state, entropy))
         IN /\ loop' = st
            /\ km' = [km EXCEPT !.n_local_trials = st.trials,
                                !.data = ToFloat(D)]
    /\ pc' = "loop"
    /\ UNCHANGED sbVars

\* lines 66-81: one pass of the loop.
InitCentroidsStep ==
    /\ pc = "loop"
    /\ Len(loop.centroids) < km.n_clusters
    /\ loop' = SeedStep(km.data, loop)
    /\ pc' = IF loop'.err # "none" THEN "raised" ELSE "loop"
    /\ UNCHANGED <<km, sbVars>>

\* line 83
InitCentroidsReturn ==
    /\ pc = "loop"
    /\ Len(loop.centroids) >= km.n_clusters
    /\ pc' = "done"
    /\ UNCHANGED <<km, loop, sbVars>>

NoCall == [op |-> "none", err |-> "none", val |-> None]
NoKMeans == [err |-> "none", n_clusters |-> 0, n_local_trials |-> None,
             cluster_centers_ |-> None, labels_ |-> None]

InitSeed ==
    /\ \E k \in 1..(MaxClusters + 1), t \in TrialsValues, r \in SeedValues :
         km = KMeansNew(k, t, r)
    /\ loop = NoLoop
    /\ pc = "idle"
    /\ sb = None
    /\ cluster_centers_ = None
    /\ eigvals_ = None
    /\ X_train = None
    /\ kmeans = NoKMeans
    /\ affinity = None
    /\ lapack = None
    /\ spectralclustering = None
    /\ ret = NoCall
    /\ runs = <<>>

NextSeed == InitCentroidsEnter \/ InitCentroidsStep \/ InitCentroidsReturn

SpecSeed == InitSeed /\ [][NextSeed]_vars


(***************************************************************************)
(* SpectralBridges.fit, predict and normalized_eigengap as operations on   *)
(* one SpectralBridges object.                                             *)
(***************************************************************************)
MValues == {0, MDefault}

\* The entropy a default_rng(None) may start from; a seeded one reads none.
Entropy(random_state) == IF random_state = None THEN RngStates ELSE {0}

Outcome(err, centers, eigvals) ==
    [err |-> err, cluster_centers_ |-> centers, eigvals_ |-> eigvals]

\* The outcomes of the last two fits of a seeded object on X_train.
Runs(outcome) ==
    IF sb.random_state = None THEN <<>>
    ELSE IF runs = <<>> THEN <<outcome>>
    ELSE <<runs[Len(runs)], outcome>>

\* lines 204-263
Fit ==
    \E e1 \in Entropy(sb.random_state) :
      \E Xf \in {ToFloat(X_train)} :
      \E km1 \in {KMeans_fit(Xf, sb.n_nodes, sb.n_iter, sb.n_local_trials,
                              sb.random_state, e1)} :
      /\ kmeans' = km1
      /\ UNCHANGED <<sb, X_train, kmVars>>
      /\ IF km1.err # "none"
         THEN \* line 218 raised
              /\ ret' = [op |-> "fit", err |-> km1.err, val |-> None]
              /\ runs' = Runs(Outcome(km1.err, None, None))
              /\ affinity' = None
              /\ spectralclustering' = None
              /\ UNCHANGED <<cluster_centers_, eigvals_, lapack>>
         ELSE
           \E aff \in {BuildAffinity(Xf, km1.cluster_centers_, km1.labels_, sb.M)} :
           \E out \in EighCall(aff.exp, sb.n_clusters, lapack),
              e2 \in Entropy(sb.random_state) :
           \E sc \in {SpectralClustering_fit(out, sb.n_clusters,
                                              sb.random_state, e2)} :
             LET groups == Groups(km1.cluster_centers_, sc.labels_, sb.n_clusters)
             IN
             /\ affinity' = aff
             /\ lapack' = [in |-> <<aff.exp, sb.n_clusters>>, out |-> out]
             /\ spectralclustering' = sc
             /\ ret' = [op |-> "fit", err |-> sc.err, val |-> None]
             /\ IF sc.err # "none"
                THEN \* line 257 raised
                     /\ runs' = Runs(Outcome(sc.err, None, None))
                     /\ UNCHANGED <<cluster_centers_, eigvals_>>
                ELSE \* lines 259-263
                     /\ eigvals_' = sc.eigvals_
                     /\ cluster_centers_' = groups
                     /\ runs' = Runs(Outcome("none", groups, sc.eigvals_))

RECURSIVE Concat(_)
\* np.vstack
Concat(groups) == IF groups = <<>> THEN <<>>
                  ELSE Head(groups) \o Concat(Tail(groups))

\* np.cumsum of the group sizes
Cutoffs(groups) ==
    [g \in 1..Len(groups) |-> Len(Concat(SubSeq(groups, 1, g)))]

\* np.searchsorted(a, v, side="left") for one v
SearchSortedLeft(a, v) == Cardinality({g \in 1..Len(a) : a[g] < v})

\* np.searchsorted(a, v, side="right") for one v
SearchSortedRight(a, v) == Cardinality({g \in 1..Len(a) : a[g] <= v})

\* lines 278-289, for a fitted object
SB_predict(groups, x) ==
    LET cluster_centers == Concat(groups)
        cluster_cutoffs == Cutoffs(groups)
        winners == Search(ToFloat(x), cluster_centers)
    IN [p \in 1..Len(x) |-> SearchSortedRight(cluster_cutoffs, winners[p])]

\* Query matrices: one or two rows of one coordinate.
Queries == {<<<<a>>>> : a \in 0..MaxCoord} \cup {<<<<0>>, <<MaxCoord>>>>}

\* lines 265-289.  np.vstack(None) raises TypeError.
Predict ==
    /\ \E x \in Queries :
         ret' = IF cluster_centers_ = None
                THEN [op |-> "predict", err |-> "TypeError", val |-> None]
                ELSE [op |-> "predict", err |-> "none",
                      val |-> SB_predict(cluster_centers_, x), arg |-> x]
    /\ UNCHANGED <<sb, cluster_centers_, eigvals_, X_train, kmeans, affinity,
                   lapack, spectralclustering, runs, kmVars>>

\* lines 299-301: the quotient a / b of two eigenvalues, as numpy's float
\* division leaves it (<<a, b>>; b = 0 gives nan or inf, not an exception).
\* Subscripting None raises TypeError; an index past the end, IndexError.
SB_normalized_eigengap(eigvals, n_clusters) ==
    IF eigvals = None THEN [err |-> "TypeError", val |-> None]
    ELSE IF n_clusters >= Len(eigvals) THEN [err |-> "IndexError", val |-> None]
    ELSE [err |-> "none",
          val |-> <<eigvals[n_clusters + 1] - eigvals[n_clusters],
                    eigvals[n_clusters + 1]>>]

\* lines 291-301
NormalizedEigengap ==
    /\ LET r == SB_normalized_eigengap(eigvals_, sb.n_clusters)
       IN ret' = [op |-> "normalized_eigengap", err |-> r.err, val |-> r.val]
    /\ UNCHANGED <<sb, cluster_centers_, eigvals_, X_train, kmeans, affinity,
                   lapack, spectralclustering, runs, kmVars>>

\* The objects of the model: seeded, with the default n_local_trials.
Configurations ==
    {SpectralBridgesNew(k, n, M, None, Some(r)) :
        k \in 1..MaxClusters, n \in 1..MaxNodes, M \in MValues, r \in 0..1}

\* The object after __init__ (lines 186-202).
Init ==
    /\ sb \in Configurations
    /\ cluster_centers_ = None
    /\ eigvals_ = None
    /\ X_train \in Datasets
    /\ kmeans = NoKMeans
    /\ affinity = None
    /\ lapack = None
    /\ spectralclustering = None
    /\ ret = NoCall
    /\ runs = <<>>
    /\ km = None
    /\ loop = NoLoop
    /\ pc = "idle"

Next == Fit \/ Predict \/ NormalizedEigengap

Spec == Init /\ [][Next]_vars

(***************************************************************************)
(* predict and normalized_eigengap on any fitted object.  The groups of    *)
(* cluster_centers_ follow the labels of the second k-means, which may     *)
(* leave any label without a node: the fitted objects here are all the     *)
(* ways of cutting up to MaxNodes centroids into n_clusters groups.        *)
(***************************************************************************)
\* A node centroid: one coordinate, a whole number of halves.
Centroids == {<<c * (Unit \div 2)>> : c \in 0..(MaxCoord - 1)}

CentroidSeqs == UNION {[1..n -> Centroids] : n \in 1..MaxNodes}

\* The ways of cutting the sequence c into k groups in order.
Cuts(c, k) ==
    {[g \in 1..k |->
        SubSeq(c, (IF g = 1 THEN 0 ELSE cut[g - 1]) + 1,
                  IF g = k THEN Len(c) ELSE cut[g])] :
        cut \in NonDecreasing(k - 1, 0, Len(c))}

\* A fitted object: fit's locals are gone, the two result fields are set.
\* The spectrum is n_clusters zeros (one per component) and then MaxEig.
InitPredict ==
    /\ \E c \in CentroidSeqs, k \in 1..MaxClusters :
         /\ k <= Len(c)
         /\ sb = SpectralBridgesNew(k, Len(c), MDefault, None, Some(0))
         /\ cluster_centers_ \in Cuts(c, k)
         /\ eigvals_ = [i \in 1..Len(c) |-> IF i <= k THEN 0 ELSE MaxEig]
    /\ X_train = None
    /\ kmeans = NoKMeans
    /\ affinity = None
    /\ lapack = None
    /\ spectralclustering = None
    /\ ret = NoCall
    /\ runs = <<>>
    /\ km = None
    /\ loop = NoLoop
    /\ pc = "idle"

NextPredict == Predict \/ NormalizedEigengap

SpecPredict == InitPredict /\ [][NextPredict]_vars

(***************************************************************************)
(* Claims about fit (Spec).                                                *)
(***************************************************************************)
FitReturned == ret.op = "fit" /\ ret.err = "none"

\* The nodes (1-based) the second k-means labelled g (0-based).
NodesOf(g) ==
    {i \in 1..Len(spectralclustering.labels_) : spectralclustering.labels_[i] = g}

\* The q-th smallest member of the set S of numbers.
Nth(S, q) == CHOOSE i \in S : Cardinality({e \in S : e < i}) = q - 1

\* C1: after a successful fit, cluster_centers_ has n_clusters groups whose
\* sizes sum to n_nodes, every node is in exactly one group, and group g
\* holds the centroids of exactly the nodes labelled g.
C1_Partition ==
    FitReturned =>
      /\ Len(kmeans.cluster_centers_) = sb.n_nodes
      /\ Len(cluster_centers_) = sb.n_clusters
      /\ SumSeq([g \in 1..sb.n_clusters |-> Len(cluster_centers_[g])]) = sb.n_nodes
      /\ \A i \in 1..sb.n_nodes :
           Cardinality({g \in 0..(sb.n_clusters - 1) : i \in NodesOf(g)}) = 1
      /\ \A g \in 1..sb.n_clusters :
           /\ Len(cluster_centers_[g]) = Cardinality(NodesOf(g - 1))
           /\ \A q \in 1..Len(cluster_centers_[g]) :
                cluster_centers_[g][q]
                    = kmeans.cluster_centers_[Nth(NodesOf(g - 1), q)]

\* A successful fit that put two of three nodes in one group, and the two
\* are not neighbours in node order.
C1_Witness ==
    /\ FitReturned
    /\ sb.n_nodes = 3
    /\ sb.n_clusters = 2
    /\ spectralclustering.labels_[1] = spectralclustering.labels_[3]
    /\ spectralclustering.labels_[1] # spectralclustering.labels_[2]

C7_OneNodePerGroup ==
    (FitReturned /\ sb.n_clusters = sb.n_nodes) =>
      \A g \in 1..sb.n_clusters : Len(cluster_centers_[g]) = 1

\* A successful fit with three nodes and three clusters.
C7_Witness ==
    /\ FitReturned
    /\ sb.n_clusters = 3
    /\ sb.n_nodes = 3

InvalidConfiguration ==
    \/ sb.n_clusters > sb.n_nodes
    \/ sb.n_nodes > Len(X_train)
    \/ sb.M <= 0

\* C4: fit on an invalid configuration ends in ConfigurationError before
\* any clustering step and writes neither cluster_centers_ nor eigvals_.
C4_ConfigurationError ==
    (ret.op = "fit" /\ InvalidConfiguration) =>
      /\ ret.err = "ConfigurationError"
      /\ kmeans = NoKMeans
      /\ cluster_centers_ = None
      /\ eigvals_ = None

Symmetric(A) ==
    \A i \in 1..Len(A), j \in 1..Len(A) : FloatEq(A[i][j], A[j][i])

\* C8: the affinity matrix fit builds is symmetric after the
\* symmetrization and after the contrast rescale.
C8_Symmetric ==
    affinity # None => Symmetric(affinity.sym) /\ Symmetric(affinity.exp)

(***************************************************************************)
(* Claims about predict and normalized_eigengap.                           *)
(***************************************************************************)
\* The number of centroids in the groups before group g (0-based).
Offset(g) == SumSeq([h \in 1..g |-> Len(cluster_centers_[h])])

\* The flat index (0-based) of the centroid nearest to the query row q,
\* the first one among equally near centroids.
Winner(q) ==
    LET flat == Concat(cluster_centers_)
    IN CHOOSE w \in 0..(Len(flat) - 1) :
         /\ \A v \in 0..(Len(flat) - 1) : Dist2(q, flat[w + 1]) <= Dist2(q, flat[v + 1])
         /\ \A v \in 0..(w - 1) : Dist2(q, flat[v + 1]) > Dist2(q, flat[w + 1])

Owns(g, w) == Offset(g) <= w /\ w < Offset(g + 1)

\* C2: predict gives, for every query row, the one group g in
\* 0 .. n_clusters - 1 whose range of flat indices holds the nearest
\* centroid, empty groups included.
C2_PredictOwner ==
    (ret.op = "predict" /\ ret.err = "none") =>
      /\ Len(ret.val) = Len(ret.arg)
      /\ \A p \in 1..Len(ret.arg) :
           LET w == Winner(ToFloat(ret.arg)[p])
           IN /\ ret.val[p] \in 0..(sb.n_clusters - 1)
              /\ Owns(ret.val[p], w)
              /\ \A g \in 0..(sb.n_clusters - 1) : Owns(g, w) => g = ret.val[p]

\* A predict on an object whose first and last groups are empty.
C2_Witness ==
    /\ ret.op = "predict"
    /\ ret.err = "none"
    /\ sb.n_clusters = 3
    /\ cluster_centers_[1] = <<>>
    /\ cluster_centers_[3] = <<>>
    /\ ret.val = <<1, 1>>

NeverFitted == cluster_centers_ = None /\ eigvals_ = None

\* C3: predict and normalized_eigengap on an object never fitted end in
\* NotFittedError and return nothing.
C3_NotFittedError ==
    (ret.op \in {"predict", "normalized_eigengap"} /\ NeverFitted) =>
      ret.err = "NotFittedError" /\ ret.val = None

\* C6: on a fitted object with n_clusters <= n_nodes, normalized_eigengap
\* returns (eigvals[n_clusters] - eigvals[n_clusters - 1]) / eigvals[n_clusters].
C6_Eigengap ==
    (ret.op = "normalized_eigengap" /\ eigvals_ # None
        /\ sb.n_clusters <= sb.n_nodes) =>
      /\ ret.err = "none"
      /\ ret.val = <<eigvals_[sb.n_clusters + 1] - eigvals_[sb.n_clusters],
                     eigvals_[sb.n_clusters + 1]>>

(***************************************************************************)
(* Claims about the seeding (SpecSeed).                                    *)
(***************************************************************************)
MinOf(S) == CHOOSE m \in S : \A e \in S : m <= e

\* The squared distance from point x to the nearest of the centres Cs.
Potential(x, Cs) == MinOf({Dist2(x, Cs[c]) : c \in 1..Len(Cs)})

\* The total potential once centre y joins the centres Cs.
TotalWith(D, Cs, y) ==
    SumSeq([p \in 1..Len(D) |-> Potential(D[p], Append(Cs, y))])

Stepped == pc \in {"loop", "done"} /\ loop.candidate_ids # <<>>

\* C10: in every pass the adopted centre is one of the n_local_trials
\* candidates drawn (duplicates kept) and no candidate gives a smaller
\* total potential; the potential kept for each point is its squared
\* distance to the nearest centre chosen so far; the total potential is
\* their sum and is no larger than before the pass.
C10_GreedySeeding ==
    pc \in {"loop", "done"} =>
      /\ \A p \in 1..Len(km.data) :
           loop.dists[p] = Potential(km.data[p], loop.centroids)
      /\ loop.inertia = SumSeq(loop.dists)
      /\ loop.inertia <= loop.prev
      /\ loop.candidate_ids # <<>> =>
           LET n == Len(loop.centroids)
               old == SubSeq(loop.centroids, 1, n - 1)
               cand(c) == km.data[loop.candidate_ids[c] + 1]
               T == Len(loop.candidate_ids)
           IN /\ T = Get(km.n_local_trials)
              /\ \E b \in 1..T :
                   /\ loop.centroids[n] = cand(b)
                   /\ \A c \in 1..T :
                        TotalWith(km.data, old, cand(b))
                            <= TotalWith(km.data, old, cand(c))

\* A pass that drew two different candidates, adopted the second one and
\* lowered the total potential.
C10_Witness ==
    /\ Stepped
    /\ Len(loop.candidate_ids) = 2
    /\ loop.candidate_ids[1] # loop.candidate_ids[2]
    /\ loop.inertias[2] < loop.inertias[1]
    /\ loop.centroids[Len(loop.centroids)] = km.data[loop.candidate_ids[2] + 1]
    /\ loop.inertia < loop.prev

\* C9: a call with n_local_trials unspecified leaves it unspecified on the
\* _KMeans object.
C9_DefaultNotStored ==
    (km # None /\ km.given_trials = None) => km.n_local_trials = None

=============================================================================
